---- MODULE Spec2Model ----
(***************************************************************************)
(* Flood_Monitor: the tabular risk pipeline, its store and its dashboard.  *)
(*                                                                         *)
(*   csv_ingestion.load_mockup_flood_dataset   (event loader)              *)
(*   csv_processing._minmax                    (aggregator's normaliser)   *)
(*   csv_processing.build_province_risk_geodata (province aggregator)      *)
(*   streamlit_app._minmax_numeric             (dashboard's normaliser)    *)
(*   streamlit_app.load_event_level_dataset    (dashboard event loader)    *)
(*   streamlit_app._risk_to_rgb                (colour of a risk score)    *)
(*   storage.save_flood_events_to_postgis      (persistence)               *)
(*   pipeline.run_pipeline                     (the batch run)             *)
(*   streamlit_app.load_flood_events_from_csv  (cached region loader)      *)
(*   processing.extract_flood_polygons         (water polygons of a raster)*)
(*                                                                         *)
(* Floats are modelled as exact rationals in lowest terms, NaN as a cell   *)
(* of kind "nan"; dates as day ordinals. Each part has a specification of  *)
(* its own: Spec (loaders and aggregator), SpecNorm, SpecColour, SpecRun,  *)
(* SpecCache, SpecRaster.                                                  *)
(***************************************************************************)
EXTENDS Integers, Sequences, FiniteSets, TLC

VARIABLES
    pc,                  \* position of the run
    series,              \* the series handed to the normalisers
    minmax_out,          \* what _minmax(series) returned
    minmax_numeric_out,  \* what _minmax_numeric(series) returned
    csv,                 \* the CSV file: its header and its rows
    start_date,          \* requested window, first day
    end_date,            \* requested window, last day
    min_samples,         \* min_samples_per_province
    str_keeps_na,        \* the installed pandas: does astype(str) keep a missing value
    loaded,              \* what load_mockup_flood_dataset returned or raised
    gdf,                 \* what build_province_risk_geodata returned
    events,              \* what load_event_level_dataset returned or raised
    risk,                \* the argument of _risk_to_rgb
    rgb,                 \* what _risk_to_rgb(risk) returned
    schema,              \* settings.storage.schema
    db,                  \* the PostGIS database: extension, schemas, table, index
    artifacts,           \* the GeoJSON files of the output directory
    summary,             \* what run_pipeline returned or raised in the store
    before,              \* db and artifacts as the run found them
    runs,                \* number of runs started
    env,                 \* the dashboard's environment: START_DATE/END_DATE, threshold
    clock,               \* seconds since midnight of the day the dashboard started
    ticks,               \* number of times the clock was read ahead
    cache,               \* st.cache_data of load_flood_events_from_csv, by path_str
    served,              \* the last call of load_flood_events_from_csv
    raster,              \* the input raster: green, swir and data mask by pixel, CRS
    mndwi_threshold,     \* argument of extract_flood_polygons
    min_polygon_area_sqkm, \* argument of extract_flood_polygons
    extracted,           \* what extract_flood_polygons returned or raised
    previous,            \* what the call before the last one returned or raised
    calls                \* number of calls of extract_flood_polygons

tabularVars == <<series, minmax_out, minmax_numeric_out, csv, start_date, end_date,
                 min_samples, str_keeps_na, loaded, gdf, events>>
colourVars == <<risk, rgb>>
storeVars == <<schema, db, artifacts, summary, before, runs>>
cacheVars == <<env, clock, ticks, cache, served>>
rasterVars == <<raster, mndwi_threshold, min_polygon_area_sqkm, extracted, previous,
                calls>>
besideTabular == <<colourVars, storeVars, cacheVars, rasterVars>>

vars == <<pc, tabularVars, colourVars, storeVars, cacheVars, rasterVars>>

----------------------------------------------------------------------------
(* Bounds of the model *)

MaxLen == 3        \* longest series handed to a normaliser
MaxRows == 3       \* most rows of a CSV file
MaxRisk == 20      \* largest numerator of a risk handed to _risk_to_rgb
MaxRuns == 2       \* most batch runs in a row
MaxTicks == 4      \* most advances of the dashboard's clock
GridWidth == 2     \* columns of the raster; it has two rows
MaxCalls == 2      \* most extractions from one raster

----------------------------------------------------------------------------
(* Numbers: a cell is a number n/d in lowest terms (d > 0), NaN, or text   *)
(* that is not a number.                                                   *)

Abs(x) == IF x < 0 THEN 0 - x ELSE x

RECURSIVE GCD(_, _)
GCD(a, b) == IF b = 0 THEN a ELSE GCD(b, a % b)

Rat(n, d) ==
    LET g == GCD(Abs(n), d)
    IN  [k |-> "num", n |-> n \div g, d |-> d \div g]

NaN == [k |-> "nan", n |-> 0, d |-> 1]
Text == [k |-> "text", n |-> 0, d |-> 1]
R(n) == Rat(n, 1)
Zero == Rat(0, 1)
One == Rat(1, 1)

IsNum(c) == c.k = "num"
IsNaN(c) == c.k = "nan"

LCM(a, b) == (a \div GCD(a, b)) * b

RSub(a, b) ==
    LET l == LCM(a.d, b.d)
    IN  Rat(a.n * (l \div a.d) - b.n * (l \div b.d), l)

RAdd(a, b) ==
    LET l == LCM(a.d, b.d)
    IN  Rat(a.n * (l \div a.d) + b.n * (l \div b.d), l)

RMul(a, b) ==
    LET g1 == GCD(Abs(a.n), b.d)
        g2 == GCD(Abs(b.n), a.d)
    IN  Rat((a.n \div g1) * (b.n \div g2), (a.d \div g2) * (b.d \div g1))

RInv(a) == IF a.n > 0 THEN Rat(a.d, a.n) ELSE Rat(0 - a.d, 0 - a.n)

RDiv(a, b) == RMul(a, RInv(b))

RAbs(a) == Rat(Abs(a.n), a.d)

\* a/b < c/d for fractions in [0, 1), by the integer parts of the reciprocals
RECURSIVE FracLess(_, _, _, _)
FracLess(a, b, c, d) ==
    IF c = 0 THEN FALSE
    ELSE IF a = 0 THEN TRUE
    ELSE IF d \div c # b \div a THEN d \div c < b \div a
    ELSE FracLess(d % c, c, b % a, a)

\* a < b: by the integer parts, then by the fractions
RLess(a, b) ==
    LET ia == a.n \div a.d
        ib == b.n \div b.d
    IN  \/ ia < ib
        \/ ia = ib /\ FracLess(a.n % a.d, a.d, b.n % b.d, b.d)

RLeq(a, b) == a = b \/ RLess(a, b)

\* float arithmetic: NaN in, NaN out
FSub(a, b) == IF IsNum(a) /\ IsNum(b) THEN RSub(a, b) ELSE NaN
FAdd(a, b) == IF IsNum(a) /\ IsNum(b) THEN RAdd(a, b) ELSE NaN
FMul(a, b) == IF IsNum(a) /\ IsNum(b) THEN RMul(a, b) ELSE NaN
FDiv(a, b) == IF IsNum(a) /\ IsNum(b) /\ b.n # 0 THEN RDiv(a, b) ELSE NaN

\* pandas.to_numeric(errors="coerce"): text that is no number becomes NaN
ToNumeric(c) == IF c.k = "text" THEN NaN ELSE c

\* Series.clip(lower=0.0, upper=1.0): NaN stays NaN
Clip01(c) ==
    IF ~IsNum(c) THEN c
    ELSE IF RLess(c, Zero) THEN Zero
    ELSE IF RLess(One, c) THEN One
    ELSE c

Range(s) == {s[i] : i \in DOMAIN s}

\* Series.min() / Series.max(): NaN entries are skipped; NaN when none is left
SeriesMin(s) ==
    LET nums == {c \in Range(s) : IsNum(c)}
    IN  IF nums = {} THEN NaN
        ELSE CHOOSE m \in nums : \A c \in nums : RLeq(m, c)

SeriesMax(s) ==
    LET nums == {c \in Range(s) : IsNum(c)}
    IN  IF nums = {} THEN NaN
        ELSE CHOOSE m \in nums : \A c \in nums : RLeq(c, m)

----------------------------------------------------------------------------
(* The normalisers *)

EPS == Rat(1, 1000000000)

DegenerateInclusive(min_val, max_val) ==
    /\ IsNum(min_val)
    /\ IsNum(max_val)
    /\ RLeq(RAbs(RSub(max_val, min_val)), EPS)

\* abs(max_val - min_val) < 1e-9 : False when either is NaN
Degenerate(min_val, max_val) ==
    /\ IsNum(min_val)
    /\ IsNum(max_val)
    /\ RLess(RAbs(RSub(max_val, min_val)), EPS)

Zeros(s) == [i \in DOMAIN s |-> Zero]

\* (series - min_val) / (max_val - min_val)
Scaled(s, min_val, max_val) ==
    [i \in DOMAIN s |-> FDiv(FSub(s[i], min_val), FSub(max_val, min_val))]

HasText(s) == \E i \in DOMAIN s : s[i].k = "text"

Returned(v) == [status |-> "ok", values |-> v]
Raised == [status |-> "error", values |-> <<>>]
NotCalled == [status |-> "none", values |-> <<>>]

\* csv_processing._minmax
minmax(s) ==
    IF HasText(s) THEN Raised   \* float(series.min()) or the subtraction raises
    ELSE LET min_val == SeriesMin(s)
             max_val == SeriesMax(s)
         IN  IF Degenerate(min_val, max_val) THEN Returned(Zeros(s))
             ELSE Returned(Scaled(s, min_val, max_val))

\* streamlit_app._minmax_numeric
minmax_numeric(s) ==
    LET values == [i \in DOMAIN s |-> ToNumeric(s[i])]
        min_val == SeriesMin(values)
        max_val == SeriesMax(values)
    IN  IF IsNaN(min_val) \/ IsNaN(max_val) \/ Degenerate(min_val, max_val)
        THEN Returned(Zeros(s))
        ELSE Returned(Scaled(values, min_val, max_val))

----------------------------------------------------------------------------
(* The CSV file *)

REQUIRED_COLUMNS ==
    {"date", "province", "rainfall_mm", "water_level_m", "temperature_c",
     "humidity_percent", "is_flood"}

\* A province cell: a name, or an empty cell.
Name(s) == [k |-> "str", s |-> s]
Empty == [k |-> "nan", s |-> ""]

\* A timestamp cell is a number of days (a fraction is a time of day), or text.
Day(n) == Rat(n, 1)
Noon(n) == Rat(2 * n + 1, 2)

RawRow(date, province, rain, water, temp, hum, flood) ==
    [date |-> date, province |-> province, rainfall_mm |-> rain,
     water_level_m |-> water, temperature_c |-> temp,
     humidity_percent |-> hum, is_flood |-> flood]

----------------------------------------------------------------------------
(* csv_ingestion.load_mockup_flood_dataset *)

WINDOW_DAYS == 6

\* pd.to_datetime(errors="coerce").dt.date : the day of the timestamp, or NaT
ToDate(c) ==
    IF IsNum(c) THEN [isna |-> FALSE, day |-> c.n \div c.d]
    ELSE [isna |-> TRUE, day |-> 0]

\* .astype(str).str.strip() : the name; an empty cell becomes the text "nan" unless the
\* installed pandas keeps missing values through astype(str)
AsStrStrip(c, keeps_na) ==
    IF c.k = "str" THEN [isna |-> FALSE, s |-> c.s]
    ELSE IF keeps_na THEN [isna |-> TRUE, s |-> ""]
    ELSE [isna |-> FALSE, s |-> "nan"]

\* Series.astype(int) : towards zero
AsInt(c) == IF c.n >= 0 THEN c.n \div c.d ELSE 0 - ((0 - c.n) \div c.d)

ClipFlagNoUpper(i) == IF i < 0 THEN 0 ELSE i

\* .clip(lower=0, upper=1)
ClipFlag(i) == IF i < 0 THEN 0 ELSE IF i > 1 THEN 1 ELSE i

\* lines 31-43: the coercions, row by row; index is the row's label
Coerce(rows, keeps_na) ==
    [i \in DOMAIN rows |->
        [index |-> i,
         date |-> ToDate(rows[i].date),
         province |-> AsStrStrip(rows[i].province, keeps_na),
         rainfall_mm |-> ToNumeric(rows[i].rainfall_mm),
         water_level_m |-> ToNumeric(rows[i].water_level_m),
         temperature_c |-> ToNumeric(rows[i].temperature_c),
         humidity_percent |-> ToNumeric(rows[i].humidity_percent),
         is_flood |-> ToNumeric(rows[i].is_flood)]]

\* dropna(subset=["date", "province", "rainfall_mm", "water_level_m", "is_flood"])
KeptByDropna(r) ==
    /\ ~r.date.isna
    /\ ~r.province.isna
    /\ IsNum(r.rainfall_mm)
    /\ IsNum(r.water_level_m)
    /\ IsNum(r.is_flood)

\* line 46, and the row as the rest of the code sees it
Cleaned(r) ==
    [index |-> r.index,
     date |-> r.date.day,
     province |-> r.province.s,
     rainfall_mm |-> r.rainfall_mm,
     water_level_m |-> r.water_level_m,
     temperature_c |-> r.temperature_c,
     humidity_percent |-> r.humidity_percent,
     is_flood |-> ClipFlag(AsInt(r.is_flood))]

\* lines 31-46
CleanRows(rows, keeps_na) ==
    LET kept == SelectSeq(Coerce(rows, keeps_na), KeptByDropna)
    IN  [i \in DOMAIN kept |-> Cleaned(kept[i])]

InWindowOpen(r, first, last) == r.date > first /\ r.date < last

\* (df["date"] >= start) & (df["date"] <= end)
InWindow(r, first, last) == r.date >= first /\ r.date <= last

FilterWindow(df, first, last) ==
    LET Test(r) == InWindow(r, first, last) IN SelectSeq(df, Test)

\* df["date"].max()
LatestDate(df) ==
    CHOOSE m \in {df[i].date : i \in DOMAIN df} :
        \A i \in DOMAIN df : df[i].date <= m

FallbackStartWeekBack(latest_date) == latest_date - (WINDOW_DAYS + 1)

\* latest_date - timedelta(days=6)
FallbackStart(latest_date) == latest_date - WINDOW_DAYS

LoadOk(rows, first, last) ==
    [status |-> "ok", raised_at |-> "", names |-> {}, rows |-> rows,
     effective_start |-> first, effective_end |-> last]

LoadRaised(where, names) ==
    [status |-> "error", raised_at |-> where, names |-> names, rows |-> <<>>,
     effective_start |-> 0, effective_end |-> 0]

NotLoaded ==
    [status |-> "none", raised_at |-> "", names |-> {}, rows |-> <<>>,
     effective_start |-> 0, effective_end |-> 0]

\* lines 48-58
SelectWindow(df, first, last) ==
    LET filtered == FilterWindow(df, first, last)
    IN  IF filtered # <<>> THEN LoadOk(filtered, first, last)
        ELSE IF df = <<>>
             THEN LoadRaised("fallback", {})   \* NaN - timedelta raises TypeError
        ELSE LET latest_date == LatestDate(df)
                 effective_end == latest_date
                 effective_start == FallbackStart(latest_date)
             IN  LoadOk(FilterWindow(df, effective_start, effective_end),
                        effective_start, effective_end)

\* pd.read_csv(csv_path, parse_dates=["date"]) raises when the file has no
\* "date" column, naming that column
ReadCsvRaises(file) == "date" \notin file.columns

load_mockup_flood_dataset(file, first, last, keeps_na) ==
    IF ReadCsvRaises(file) THEN LoadRaised("read_csv", {"date"})
    ELSE LET missing == REQUIRED_COLUMNS \ file.columns
         IN  IF missing # {} THEN LoadRaised("missing_columns", missing)
             ELSE SelectWindow(CleanRows(file.rows, keeps_na), first, last)

----------------------------------------------------------------------------
(* csv_processing.build_province_risk_geodata *)

\* PROVINCE_CENTROIDS, (lon, lat) in 1/10000 of a degree
PROVINCE_CENTROIDS ==
    ("Ayutthaya" :> <<1005686, 143532>>) @@
    ("Bangkok" :> <<1005018, 137563>>) @@
    ("Chiang Mai" :> <<989853, 187883>>) @@
    ("Chiang Rai" :> <<998406, 199105>>) @@
    ("Khon Kaen" :> <<1028350, 164419>>) @@
    ("Nakhon Ratchasima" :> <<1020978, 149799>>) @@
    ("Nakhon Sawan" :> <<1001372, 157047>>) @@
    ("Nakhon Si Thammarat" :> <<999631, 84304>>) @@
    ("Nan" :> <<1007715, 187756>>) @@
    ("Pathum Thani" :> <<1005250, 140208>>) @@
    ("Phrae" :> <<1001417, 181459>>) @@
    ("Songkhla" :> <<1005997, 72003>>) @@
    ("Sukhothai" :> <<998220, 170056>>) @@
    ("Surat Thani" :> <<993334, 91401>>) @@
    ("Ubon Ratchathani" :> <<1048572, 152448>>)

\* PROVINCE_CENTROIDS.get(p, (np.nan, np.nan)) is not (nan, nan)
HasCentroid(p) == p \in DOMAIN PROVINCE_CENTROIDS

\* the pair (nan, nan)
NoPoint == <<>>

CentroidOrDefault(p) ==
    IF HasCentroid(p) THEN PROVINCE_CENTROIDS[p] ELSE PROVINCE_CENTROIDS["Bangkok"]

\* PROVINCE_CENTROIDS.get(p, (np.nan, np.nan)), lines 92-97 (lon and lat)
CentroidOf(p) == IF HasCentroid(p) THEN PROVINCE_CENTROIDS[p] ELSE NoPoint

\* The order in which groupby lists its keys (sorted), over the names of the
\* model: the table's, one name the table lacks, and the text "nan".
KeyOrder ==
    <<"Atlantis", "Ayutthaya", "Bangkok", "Chiang Mai", "Chiang Rai", "Khon Kaen",
      "Nakhon Ratchasima", "Nakhon Sawan", "Nakhon Si Thammarat", "Nan",
      "Pathum Thani", "Phrae", "Songkhla", "Sukhothai", "Surat Thani",
      "Ubon Ratchathani", "nan">>

RECURSIVE SumInt(_)
SumInt(s) == IF s = <<>> THEN 0 ELSE Head(s) + SumInt(Tail(s))

RECURSIVE SumRat(_)
SumRat(s) == IF s = <<>> THEN Zero ELSE RAdd(Head(s), SumRat(Tail(s)))

\* the "mean" aggregation: NaN entries are skipped, NaN when none is left
Mean(s) ==
    LET nums == SelectSeq(s, IsNum)
    IN  IF nums = <<>> THEN NaN ELSE RDiv(SumRat(nums), Rat(Len(nums), 1))

MinInt(S) == CHOOSE m \in S : \A x \in S : m <= x
MaxInt(S) == CHOOSE m \in S : \A x \in S : x <= m

RowsOf(df, p) == LET Test(r) == r.province = p IN SelectSeq(df, Test)

\* lines 41-53: one group of df.groupby("province").agg(...)
Group(df, p) ==
    LET rows == RowsOf(df, p)
        dates == {rows[i].date : i \in DOMAIN rows}
    IN  [province |-> p,
         sample_count |-> Len(rows),
         flood_events |-> SumInt([i \in DOMAIN rows |-> rows[i].is_flood]),
         rainfall_mm_mean |-> Mean([i \in DOMAIN rows |-> rows[i].rainfall_mm]),
         water_level_m_mean |-> Mean([i \in DOMAIN rows |-> rows[i].water_level_m]),
         temperature_c_mean |-> Mean([i \in DOMAIN rows |-> rows[i].temperature_c]),
         humidity_percent_mean |->
             Mean([i \in DOMAIN rows |-> rows[i].humidity_percent]),
         event_start |-> MinInt(dates),
         event_end |-> MaxInt(dates)]

Grouped(df) ==
    LET Present(p) == \E i \in DOMAIN df : df[i].province = p
        keys == SelectSeq(KeyOrder, Present)
    IN  [i \in DOMAIN keys |-> Group(df, keys[i])]

EnoughSamplesOffByOne(g, min_samples_per_province) ==
    g.sample_count + 1 >= min_samples_per_province

\* grouped["sample_count"] >= min_samples_per_province
EnoughSamples(g, min_samples_per_province) ==
    g.sample_count >= min_samples_per_province

FloodRateUndivided(g) == Rat(g.flood_events, 1)

\* grouped["flood_events"] / grouped["sample_count"]
FloodRate(g) == RDiv(Rat(g.flood_events, 1), Rat(g.sample_count, 1))

W_WATER == Rat(40, 100)
W_RAIN == Rat(30, 100)
W_RATE == Rat(20, 100)
W_HUMIDITY == Rat(10, 100)

\* lines 81-90
RiskScore(water_norm, rainfall_norm, flood_rate, humidity_norm) ==
    Clip01(FAdd(FAdd(FAdd(FMul(W_WATER, water_norm),
                          FMul(W_RAIN, rainfall_norm)),
                     FMul(W_RATE, flood_rate)),
                FMul(W_HUMIDITY, humidity_norm)))

build_province_risk_geodata(df, min_samples_per_province, source_dataset, now) ==
    LET Enough(g) == EnoughSamples(g, min_samples_per_province)
        grouped == SelectSeq(Grouped(df), Enough)
        rainfall_norm ==
            minmax([i \in DOMAIN grouped |-> grouped[i].rainfall_mm_mean]).values
        water_norm ==
            minmax([i \in DOMAIN grouped |-> grouped[i].water_level_m_mean]).values
        humidity_norm ==
            minmax([i \in DOMAIN grouped |-> grouped[i].humidity_percent_mean]).values
        scored ==
            [i \in DOMAIN grouped |->
                [province |-> grouped[i].province,
                 sample_count |-> grouped[i].sample_count,
                 flood_events |-> grouped[i].flood_events,
                 flood_rate |-> FloodRate(grouped[i]),
                 rainfall_mm_mean |-> grouped[i].rainfall_mm_mean,
                 water_level_m_mean |-> grouped[i].water_level_m_mean,
                 temperature_c_mean |-> grouped[i].temperature_c_mean,
                 humidity_percent_mean |-> grouped[i].humidity_percent_mean,
                 risk_score |-> RiskScore(water_norm[i], rainfall_norm[i],
                                          FloodRate(grouped[i]), humidity_norm[i]),
                 event_start |-> grouped[i].event_start,
                 event_end |-> grouped[i].event_end,
                 detected_at |-> now,
                 source_dataset |-> source_dataset,
                 geometry |-> CentroidOf(grouped[i].province)]]
        Located(g) == g.geometry # NoPoint
    IN  IF grouped = <<>> THEN <<>>
        ELSE SelectSeq(scored, Located)

----------------------------------------------------------------------------
(* streamlit_app.load_event_level_dataset *)

\* lines 123-133; the date column keeps the timestamp
CoerceEvents(rows, keeps_na) ==
    [i \in DOMAIN rows |->
        [index |-> i,
         date |-> IF IsNum(rows[i].date) THEN rows[i].date ELSE NaN,
         province |-> AsStrStrip(rows[i].province, keeps_na),
         rainfall_mm |-> ToNumeric(rows[i].rainfall_mm),
         water_level_m |-> ToNumeric(rows[i].water_level_m),
         temperature_c |-> ToNumeric(rows[i].temperature_c),
         humidity_percent |-> ToNumeric(rows[i].humidity_percent),
         is_flood |-> ToNumeric(rows[i].is_flood)]]

\* dropna(subset=["date", "province", "rainfall_mm", "water_level_m",
\*                "humidity_percent", "is_flood"])
KeptByEventDropna(r) ==
    /\ IsNum(r.date)
    /\ ~r.province.isna
    /\ IsNum(r.rainfall_mm)
    /\ IsNum(r.water_level_m)
    /\ IsNum(r.humidity_percent)
    /\ IsNum(r.is_flood)

\* line 138, and lines 141-147: the rows with a centroid
EventRows(rows, keeps_na) ==
    LET kept == SelectSeq(CoerceEvents(rows, keeps_na), KeptByEventDropna)
        clamped == [i \in DOMAIN kept |->
                       [kept[i] EXCEPT !.province = kept[i].province.s,
                                       !.is_flood = ClipFlag(AsInt(kept[i].is_flood))]]
        Located(r) == CentroidOf(r.province) # NoPoint
    IN  SelectSeq(clamped, Located)

E_WATER == Rat(42, 100)
E_RAIN == Rat(30, 100)
E_FLAG == Rat(15, 100)
E_HUMIDITY == Rat(8, 100)
E_TEMPERATURE == Rat(5, 100)

\* lines 159-165
EventRiskScore(water_norm, rain_norm, is_flood, humidity_norm, temp_norm) ==
    Clip01(FAdd(FAdd(FAdd(FAdd(FMul(E_WATER, water_norm),
                               FMul(E_RAIN, rain_norm)),
                          FMul(E_FLAG, Rat(is_flood, 1))),
                     FMul(E_HUMIDITY, humidity_norm)),
                FMul(E_TEMPERATURE, temp_norm)))

EventsOk(rows) == [status |-> "ok", raised_at |-> "", names |-> {}, rows |-> rows]
EventsRaised(where, names) ==
    [status |-> "error", raised_at |-> where, names |-> names, rows |-> <<>>]
NoEvents == [status |-> "none", raised_at |-> "", names |-> {}, rows |-> <<>>]

\* lines 155-170. The jittered display coordinates lon, lat (lines 149-153) and
\* the text label are left out of the rows.
ScoredEvents(df) ==
    LET rain_norm == minmax_numeric([i \in DOMAIN df |-> df[i].rainfall_mm]).values
        water_norm == minmax_numeric([i \in DOMAIN df |-> df[i].water_level_m]).values
        humidity_norm ==
            minmax_numeric([i \in DOMAIN df |-> df[i].humidity_percent]).values
        temp_norm == minmax_numeric([i \in DOMAIN df |-> df[i].temperature_c]).values
    IN  [i \in DOMAIN df |->
            [index |-> df[i].index,
             date |-> df[i].date,
             province |-> df[i].province,
             rainfall_mm |-> df[i].rainfall_mm,
             water_level_m |-> df[i].water_level_m,
             temperature_c |-> df[i].temperature_c,
             humidity_percent |-> df[i].humidity_percent,
             is_flood |-> df[i].is_flood,
             lon_center |-> CentroidOf(df[i].province)[1],
             lat_center |-> CentroidOf(df[i].province)[2],
             event_risk_score |-> EventRiskScore(water_norm[i], rain_norm[i],
                                                 df[i].is_flood, humidity_norm[i],
                                                 temp_norm[i]),
             event_date |-> df[i].date.n \div df[i].date.d,
             event_hour |-> ((df[i].date.n % df[i].date.d) * 24) \div df[i].date.d]]

load_event_level_dataset(file, keeps_na) ==
    IF ReadCsvRaises(file) THEN EventsRaised("read_csv", {"date"})
    ELSE LET missing == REQUIRED_COLUMNS \ file.columns
         IN  IF missing # {} THEN EventsRaised("missing_columns", missing)
             ELSE EventsOk(ScoredEvents(EventRows(file.rows, keeps_na)))

----------------------------------------------------------------------------
(* streamlit_app._risk_to_rgb *)

\* lines 63-69
ANCHORS ==
    <<[pos |-> Rat(0, 100), color |-> <<245, 240, 24>>],
      [pos |-> Rat(25, 100), color |-> <<122, 233, 28>>],
      [pos |-> Rat(50, 100), color |-> <<42, 201, 92>>],
      [pos |-> Rat(75, 100), color |-> <<64, 150, 205>>],
      [pos |-> Rat(100, 100), color |-> <<120, 76, 190>>]>>

\* min(a, x) of Python: x when x < a, else a (so a when x is NaN)
PyMin(a, x) == IF IsNum(x) /\ RLess(x, a) THEN x ELSE a
\* max(a, x) of Python: x when x > a, else a
PyMax(a, x) == IF IsNum(x) /\ RLess(a, x) THEN x ELSE a

Unclamped(x) == x

\* line 62: max(0.0, min(1.0, float(risk)))
Clamp(x) == PyMax(Zero, PyMin(One, x))

\* int(round(q)) for q >= 0: the nearest integer, the even one at a tie
RoundHalfEven(q) ==
    LET floor == q.n \div q.d
        twice == 2 * (q.n % q.d)
    IN  IF twice < q.d THEN floor
        ELSE IF twice > q.d THEN floor + 1
        ELSE IF floor % 2 = 0 THEN floor ELSE floor + 1

\* lines 71-79: the first segment that holds value, and the colour in it
Interpolate(value, i) ==
    LET left == ANCHORS[i]
        right == ANCHORS[i + 1]
        ratio == RDiv(RSub(value, left.pos), RSub(right.pos, left.pos))
    IN  [c \in 1..3 |->
            RoundHalfEven(RAdd(R(left.color[c]),
                               RMul(R(right.color[c] - left.color[c]), ratio)))]

risk_to_rgb(x) ==
    LET value == Clamp(x)
        holding == {i \in 1..(Len(ANCHORS) - 1) :
                       /\ IsNum(value)
                       /\ RLeq(ANCHORS[i].pos, value)
                       /\ RLeq(value, ANCHORS[i + 1].pos)}
    IN  IF holding = {} THEN ANCHORS[Len(ANCHORS)].color
        ELSE Interpolate(value, MinInt(holding))

----------------------------------------------------------------------------
(* storage.save_flood_events_to_postgis and the tail of pipeline.run_pipeline *)

\* a database nothing was written to
FreshDb ==
    [extension |-> FALSE, schemas |-> {}, table_exists |-> FALSE, rows |-> <<>>,
     index |-> FALSE]

NeverNothingToSave(g) == FALSE

\* storage.py line 13: gdf.empty
NothingToSave(g) == g = <<>>

ReplaceRows(rows, g) == g

\* to_postgis(if_exists="append"), lines 23-29
AppendRows(rows, g) == rows \o g

RolledBack(appended, found) == found

\* the append is committed before the index is created (lines 23-38): a
\* failure of CREATE INDEX leaves the database as the append left it
AfterIndexFailure(appended, found) == appended

\* where the store can fail: create_engine and the first transaction, the
\* append, the creation of the index
Outcomes == {"ok", "ensure_fails", "append_fails", "index_fails"}

Saved(store, n) == [db |-> store, status |-> "ok", raised_at |-> "", returned |-> n]
SaveRaised(store, where) ==
    [db |-> store, status |-> "error", raised_at |-> where, returned |-> 0]

save_flood_events_to_postgis(g, store, schema_name, outcome) ==
    IF NothingToSave(g) THEN Saved(store, 0)
    ELSE LET ensured ==
                 [store EXCEPT !.extension = TRUE,
                               !.schemas = IF schema_name # ""
                                           THEN @ \cup {schema_name} ELSE @]
             appended ==
                 [ensured EXCEPT !.table_exists = TRUE, !.rows = AppendRows(@, g)]
             indexed == [appended EXCEPT !.index = TRUE]
         IN  CASE outcome = "ensure_fails" -> SaveRaised(store, "ensure")
               [] outcome = "append_fails" -> SaveRaised(ensured, "append")
               [] outcome = "index_fails" ->
                      SaveRaised(AfterIndexFailure(appended, store), "index")
               [] OTHER -> Saved(indexed, Len(g))

ArtifactAlways(flood_gdf) == TRUE

\* pipeline.py line 29: not flood_gdf.empty
ArtifactWanted(flood_gdf) == flood_gdf # <<>>

\* line 28: flood_risk_{effective_start}_{effective_end}.geojson
OutputGeojson(effective_start, effective_end) == <<effective_start, effective_end>>

\* line 30: to_file writes the file anew
ToFile(files, name, flood_gdf) ==
    {a \in files : a.name # name} \cup {[name |-> name, rows |-> flood_gdf]}

NoSummary ==
    [status |-> "none", raised_at |-> "", records_used |-> 0, province_points |-> 0,
     rows_inserted |-> 0, flood_geojson |-> <<>>]
\* lines 39-47
Summary(raw_df, flood_gdf, inserted_rows, output_geojson) ==
    [status |-> "ok", raised_at |-> "", records_used |-> Len(raw_df),
     province_points |-> Len(flood_gdf), rows_inserted |-> inserted_rows,
     flood_geojson |-> output_geojson]
RunRaised(where) == [NoSummary EXCEPT !.status = "error", !.raised_at = where]

----------------------------------------------------------------------------
(* streamlit_app.load_flood_events_from_csv behind st.cache_data(ttl=900) *)

\* @st.cache_data(ttl=900)
TTL == 900
\* seconds of a day: date.today() moves on when the clock passes midnight
DAY == 86400
\* the day the dashboard is started on
TODAY0 == 10

Today(seconds) == TODAY0 + (seconds \div DAY)

NoWindow == <<>>

\* _resolve_date_range, lines 229-236
resolve_date_range(environment, seconds) ==
    IF environment.window # NoWindow THEN environment.window
    ELSE <<Today(seconds) - 7, Today(seconds)>>

\* the key of st.cache_data: the arguments of the call
CacheKey(path_str, environment, seconds) == path_str

NoEntry == [stored_at |-> 0 - 1, value |-> <<>>, window |-> NoWindow, min_samples |-> 0]

\* an entry is served while its age is below the ttl
Fresh(entry, seconds) == entry # NoEntry /\ seconds - entry.stored_at < TTL

\* lines 240-260, the body of the cached function: the regions, or the error
\* of the loader
ComputeFromCsv(file, name, environment, seconds, keeps_na) ==
    LET window == resolve_date_range(environment, seconds)
        raw == load_mockup_flood_dataset(file, window[1], window[2], keeps_na)
    IN  IF raw.status # "ok" THEN [status |-> "error", value |-> <<>>]
        ELSE [status |-> "ok",
              value |-> build_province_risk_geodata(raw.rows, environment.min_samples,
                                                    name, seconds)]

NotServed ==
    [status |-> "none", key |-> "", hit |-> FALSE, value |-> <<>>, age |-> 0,
     window |-> NoWindow, min_samples |-> 0,
     computed_window |-> NoWindow, computed_min_samples |-> 0]

----------------------------------------------------------------------------
(* processing.extract_flood_polygons *)

\* the 1e-6 of compute_mndwi
MNDWI_EPS == Rat(1, 1000000)

\* line 14: (green - swir) / (green + swir + eps), in exact arithmetic. No
\* raster of the model has a zero divisor; numpy's inf or nan there is kept
\* as NaN.
compute_mndwi(green_band, swir_band) ==
    LET divisor == FAdd(FAdd(green_band, swir_band), MNDWI_EPS)
    IN  IF IsNum(divisor) /\ divisor = Zero THEN NaN
        ELSE FDiv(FSub(green_band, swir_band), divisor)

Positions(image) == DOMAIN image.pixels

WaterUnmasked(index, threshold, data_mask) ==
    IsNum(index) /\ RLess(threshold, index)

\* line 42: (mndwi > mndwi_threshold) & (data_mask > 0)
Water(index, threshold, data_mask) ==
    IsNum(index) /\ RLess(threshold, index) /\ IsNum(data_mask) /\ RLess(Zero, data_mask)

water_mask(image, threshold) ==
    {p \in Positions(image) :
        Water(compute_mndwi(image.pixels[p].green, image.pixels[p].swir),
              threshold, image.pixels[p].data_mask)}

\* rasterio.features.shapes joins pixels that share an edge (connectivity 4)
Adjacent(p, q) == Abs(p[1] - q[1]) + Abs(p[2] - q[2]) = 1

RECURSIVE Region(_, _)
Region(seen, mask) ==
    LET more == {q \in mask \ seen : \E p \in seen : Adjacent(p, q)}
    IN  IF more = {} THEN seen ELSE Region(seen \cup more, mask)

\* lines 50-54: one shape for every connected region of mask value 1
shapes(mask) == {Region({p}, mask) : p \in mask}

KeepsAll(polygon, min_area) == TRUE

\* line 67: area_sqkm >= min_polygon_area_sqkm
LargeEnough(polygon, min_area) == RLeq(min_area, polygon.area_sqkm)

\* line 66: the area of the shape in the UTM zone of the frame
AreaSqkm(shape, image) == RMul(R(Cardinality(shape)), image.pixel_sqkm)

RECURSIVE IndexSum(_, _)
IndexSum(shape, image) ==
    IF shape = {} THEN <<>>
    ELSE LET p == CHOOSE q \in shape : TRUE
         IN  <<compute_mndwi(image.pixels[p].green, image.pixels[p].swir)>>
                 \o IndexSum(shape \ {p}, image)

\* lines 17-23: np.nanmean of the index over the pixels of the shape
polygon_mean_mndwi(shape, image) == Mean(IndexSum(shape, image))

Extracted(polygons, mask, wrote) ==
    [status |-> "ok", raised_at |-> "", polygons |-> polygons, mask_tif |-> mask,
     geojson |-> wrote, filtered |-> FALSE]
ExtractRaised(where, mask) ==
    [status |-> "error", raised_at |-> where, polygons |-> {}, mask_tif |-> mask,
     geojson |-> FALSE, filtered |-> FALSE]
NotExtracted ==
    [status |-> "none", raised_at |-> "", polygons |-> {}, mask_tif |-> {},
     geojson |-> FALSE, filtered |-> FALSE]

\* lines 26-77. filtered: the area filter of line 67 was reached; now: what
\* pd.Timestamp.utcnow() returns at line 73.
extract_flood_polygons(image, threshold, min_area, now) ==
    LET mask == water_mask(image, threshold)
        geoms == shapes(mask)
        measured == {[geometry |-> g, water |-> 1, area_sqkm |-> AreaSqkm(g, image),
                      mean_mndwi |-> NaN, detected_at |-> 0, source_raster |-> ""] :
                        g \in geoms}
        kept == {m \in measured : LargeEnough(m, min_area)}
        final == {[m EXCEPT !.mean_mndwi = polygon_mean_mndwi(m.geometry, image),
                            !.detected_at = now,
                            !.source_raster = image.name] : m \in kept}
    IN  IF geoms = {} THEN Extracted({}, mask, FALSE)
        ELSE IF ~image.has_crs THEN ExtractRaised("estimate_utm_crs", mask)
        ELSE IF kept = {}
             THEN [Extracted({}, mask, FALSE) EXCEPT !.filtered = TRUE]
        ELSE [Extracted(final, mask, TRUE) EXCEPT !.filtered = TRUE]

----------------------------------------------------------------------------
(* The inputs *)

\* Sequences over 1..n of length at most len, listed in non-decreasing order:
\* the multisets. No step below depends on the order of the rows of a file.
Sorted(f) == \A i \in DOMAIN f : \A j \in DOMAIN f : i < j => f[i] <= f[j]
Picks(n, len) ==
    {f \in UNION {[1..m -> 1..n] : m \in 0..len} : Sorted(f)}
Datasets(kinds) ==
    {[i \in DOMAIN f |-> kinds[f[i]]] : f \in Picks(Len(kinds), MaxRows)}

GoodRow == RawRow(Day(10), Name("Bangkok"), R(10), R(1), R(30), R(50), One)

\* A good row, and rows that differ from it in one cell.
LoaderRows ==
    <<GoodRow,
      [GoodRow EXCEPT !.date = Text],
      [GoodRow EXCEPT !.date = Day(3)],
      [GoodRow EXCEPT !.date = Day(4)],
      [GoodRow EXCEPT !.date = Noon(10)],
      [GoodRow EXCEPT !.province = Empty],
      [GoodRow EXCEPT !.rainfall_mm = Text],
      [GoodRow EXCEPT !.water_level_m = NaN],
      [GoodRow EXCEPT !.humidity_percent = Text],
      [GoodRow EXCEPT !.temperature_c = NaN],
      [GoodRow EXCEPT !.temperature_c = R(35)],
      [GoodRow EXCEPT !.is_flood = Text],
      [GoodRow EXCEPT !.is_flood = R(0 - 1)],
      [GoodRow EXCEPT !.is_flood = Rat(1, 2)],
      [GoodRow EXCEPT !.is_flood = Rat(5, 2)]>>

\* Rows of three provinces, one of them without a centroid, at four levels.
Low(p) == RawRow(Day(8), Name(p), R(0), R(1), R(30), R(50), Zero)
Mid(p) == RawRow(Day(9), Name(p), R(5), R(2), R(31), R(60), One)
High(p) == RawRow(Day(10), Name(p), R(10), R(3), R(32), R(90), One)
Dry(p) == RawRow(Day(10), Name(p), R(2), R(1), NaN, NaN, Zero)

AggregatorRows ==
    <<Low("Bangkok"), Mid("Bangkok"), High("Bangkok"), Dry("Bangkok"),
      Low("Nan"), Mid("Nan"), High("Nan"), Dry("Nan"),
      Low("Atlantis"), Mid("Atlantis"), High("Atlantis"), Dry("Atlantis")>>

\* Files with the whole header, and files that lack some of three columns.
Files ==
    {[columns |-> REQUIRED_COLUMNS, rows |-> rows] :
        rows \in Datasets(LoaderRows) \cup Datasets(AggregatorRows)}
    \cup
    {[columns |-> REQUIRED_COLUMNS \ lacking, rows |-> rows] :
        lacking \in (SUBSET {"date", "province", "is_flood"}) \ {{}},
        rows \in {<<>>, <<GoodRow>>}}

\* Requested windows: around the data, before it, after it, and with the
\* ends swapped.
Windows == {<<4, 10>>, <<0, 2>>, <<11, 12>>, <<10, 4>>}

MinSamples == {1, 2}
Clock == {20}
SOURCE_DATASET == "thailand_flood_sample.csv"

\* Risks handed to _risk_to_rgb: n/d on five grids, and NaN. A colour
\* channel lies midway between two integers only for n/8 and n/16, which
\* floats hold exactly.
RiskDenominators == {1, 3, 8, 16, 100}
RiskInputs ==
    {Rat(n, d) : n \in (0 - MaxRisk)..MaxRisk, d \in RiskDenominators} \cup {NaN}

\* the variables a specification leaves alone
IdleTabular ==
    /\ series = <<>>
    /\ minmax_out = NotCalled
    /\ minmax_numeric_out = NotCalled
    /\ csv = [columns |-> REQUIRED_COLUMNS, rows |-> <<>>]
    /\ start_date = 0
    /\ end_date = 0
    /\ min_samples = 0
    /\ str_keeps_na = FALSE
    /\ loaded = NotLoaded
    /\ gdf = <<>>
    /\ events = NoEvents
IdleColour == risk = Zero /\ rgb = <<>>
IdleStore ==
    /\ schema = ""
    /\ db = FreshDb
    /\ artifacts = {}
    /\ summary = NoSummary
    /\ before = [db |-> FreshDb, artifacts |-> {}]
    /\ runs = 0

\* The files of the batch runs: regions with and without a centroid, one row
\* or two of a region, a file without a usable row, a file without rows.
RunFiles ==
    {[columns |-> REQUIRED_COLUMNS, rows |-> rows] :
        rows \in {<<Low("Bangkok")>>,
                  <<Low("Bangkok"), High("Nan")>>,
                  <<High("Nan"), High("Nan")>>,
                  <<Low("Atlantis")>>,
                  <<Low("Bangkok"), Low("Atlantis")>>,
                  <<[GoodRow EXCEPT !.date = Text]>>,
                  <<>>}}
Schemas == {"", "flood"}

\* The dashboard's files by path: the first has a row that the window of
\* day 10 holds and the window of day 11 does not.
CachePaths == {"data/a.csv", "data/b.csv"}
DashboardFiles ==
    ("data/a.csv" :>
        [columns |-> REQUIRED_COLUMNS,
         rows |-> <<[High("Bangkok") EXCEPT !.date = Day(3)], High("Bangkok")>>]) @@
    ("data/b.csv" :>
        [columns |-> REQUIRED_COLUMNS, rows |-> <<Low("Nan"), Mid("Bangkok")>>])
\* csv_path.name
DashboardNames == ("data/a.csv" :> "a.csv") @@ ("data/b.csv" :> "b.csv")
\* START_DATE and END_DATE unset, or set
Environments ==
    {[window |-> w, min_samples |-> 1] : w \in {NoWindow, <<4, 10>>}}
\* noon, and ten minutes before midnight
StartTimes == {43200, 85800}
\* the time between two looks at the dashboard
Steps == {300, 900}
\* Pixels (green, swir, data mask): water, water under a masked pixel, dry
\* land, and a pixel whose bands are both zero.
Pixel(green, swir, data_mask) ==
    [green |-> green, swir |-> swir, data_mask |-> data_mask]
PixelKinds ==
    {Pixel(R(3), R(1), One), Pixel(R(3), R(1), Zero), Pixel(R(1), R(3), One),
     Pixel(Zero, Zero, One)}
Grid == (1..GridWidth) \X (1..2)
\* rasters with and without a CRS, of pixels of a quarter of a square km
Rasters ==
    {[pixels |-> px, has_crs |-> c, pixel_sqkm |-> Rat(1, 4), name |-> "scene.tif"] :
        px \in [Grid -> PixelKinds], c \in BOOLEAN}
\* below the index of water, at the index 0 of the zero pixel, above all
Thresholds == {Rat(0 - 1, 10), Zero, Rat(3, 5)}
\* two pixels, and more than the raster
MinAreas == {Rat(1, 2), R(5)}
IdleRaster ==
    /\ raster = [pixels |-> <<>>, has_crs |-> FALSE, pixel_sqkm |-> Zero, name |-> ""]
    /\ mndwi_threshold = Zero
    /\ min_polygon_area_sqkm = Zero
    /\ extracted = NotExtracted
    /\ previous = NotExtracted
    /\ calls = 0
IdleCache ==
    /\ env = [window |-> NoWindow, min_samples |-> 0]
    /\ clock = 0
    /\ ticks = 0
    /\ cache = [p \in CachePaths |-> NoEntry]
    /\ served = NotServed

\* Cells of the series handed to the normalisers; two of them lie within
\* 1e-9 of zero.
SeriesCells ==
    {NaN, Text, Zero, Rat(1, 2000000000), EPS, Rat(1, 2), One}
SeriesInputs == UNION {[1..m -> SeriesCells] : m \in 0..MaxLen}

----------------------------------------------------------------------------
(* The batch run and the dashboard's loaders *)

Init ==
    /\ pc = "start"
    /\ series = <<>>
    /\ minmax_out = NotCalled
    /\ minmax_numeric_out = NotCalled
    /\ csv \in Files
    /\ start_date = 0
    /\ end_date = 0
    /\ min_samples = 0
    /\ str_keeps_na \in BOOLEAN
    /\ loaded = NotLoaded
    /\ gdf = <<>>
    /\ events = NoEvents
    /\ IdleColour
    /\ IdleStore
    /\ IdleCache
    /\ IdleRaster

\* pipeline.run_pipeline lines 16-20, streamlit_app.load_flood_events_from_csv
\* lines 250-255
LoadMockup ==
    /\ pc = "start"
    /\ \E w \in Windows :
          /\ start_date' = w[1]
          /\ end_date' = w[2]
          /\ loaded' = load_mockup_flood_dataset(csv, w[1], w[2], str_keeps_na)
    /\ pc' = IF loaded'.status = "ok" THEN "loaded" ELSE "failed"
    /\ UNCHANGED <<series, minmax_out, minmax_numeric_out, csv, min_samples,
                   str_keeps_na, gdf, events,
                   besideTabular>>

\* pipeline.run_pipeline lines 22-26, streamlit_app.load_flood_events_from_csv
\* lines 256-260
Aggregate ==
    /\ pc = "loaded"
    /\ \E m \in MinSamples, now \in Clock :
          /\ min_samples' = m
          /\ gdf' = build_province_risk_geodata(loaded.rows, m, SOURCE_DATASET, now)
    /\ pc' = "aggregated"
    /\ UNCHANGED <<series, minmax_out, minmax_numeric_out, csv, start_date,
                   end_date, str_keeps_na, loaded, events,
                   besideTabular>>

\* streamlit_app.load_event_level_dataset, the module importable and the file
\* there
LoadEventLevel ==
    /\ pc = "start"
    /\ events' = load_event_level_dataset(csv, str_keeps_na)
    /\ pc' = IF events'.status = "ok" THEN "events" ELSE "failed"
    /\ UNCHANGED <<series, minmax_out, minmax_numeric_out, csv, start_date,
                   end_date, min_samples, str_keeps_na, loaded, gdf,
                   besideTabular>>

Next == LoadMockup \/ Aggregate \/ LoadEventLevel

Spec == Init /\ [][Next]_vars

----------------------------------------------------------------------------
(* The normalisers on their own *)

InitNorm ==
    /\ pc = "norm"
    /\ series \in SeriesInputs
    /\ minmax_out = NotCalled
    /\ minmax_numeric_out = NotCalled
    /\ csv = [columns |-> REQUIRED_COLUMNS, rows |-> <<>>]
    /\ start_date = 0
    /\ end_date = 0
    /\ min_samples = 0
    /\ str_keeps_na = FALSE
    /\ loaded = NotLoaded
    /\ gdf = <<>>
    /\ events = NoEvents
    /\ IdleColour
    /\ IdleStore
    /\ IdleCache
    /\ IdleRaster

ApplyMinmax ==
    /\ pc = "norm"
    /\ minmax_out = NotCalled
    /\ minmax_out' = minmax(series)
    /\ UNCHANGED <<pc, series, minmax_numeric_out, csv, start_date, end_date,
                   min_samples, str_keeps_na, loaded, gdf, events,
                   besideTabular>>

ApplyMinmaxNumeric ==
    /\ pc = "norm"
    /\ minmax_numeric_out = NotCalled
    /\ minmax_numeric_out' = minmax_numeric(series)
    /\ UNCHANGED <<pc, series, minmax_out, csv, start_date, end_date,
                   min_samples, str_keeps_na, loaded, gdf, events,
                   besideTabular>>

NextNorm == ApplyMinmax \/ ApplyMinmaxNumeric

SpecNorm == InitNorm /\ [][NextNorm]_vars

----------------------------------------------------------------------------
(* The colour mapping on its own *)

InitColour ==
    /\ pc = "colour"
    /\ risk \in RiskInputs
    /\ rgb = <<>>
    /\ IdleTabular
    /\ IdleStore
    /\ IdleCache
    /\ IdleRaster

\* streamlit_app.py lines 483, 511, 599: risk_score.map(_risk_to_rgb)
ApplyRiskToRgb ==
    /\ pc = "colour"
    /\ rgb = <<>>
    /\ rgb' = risk_to_rgb(risk)
    /\ UNCHANGED <<pc, risk, tabularVars, storeVars, cacheVars, rasterVars>>

NextColour == ApplyRiskToRgb

SpecColour == InitColour /\ [][NextColour]_vars

----------------------------------------------------------------------------
(* Batch runs, one after another, against one database and one output     *)
(* directory                                                               *)

InitRun ==
    /\ pc = "start"
    /\ series = <<>>
    /\ minmax_out = NotCalled
    /\ minmax_numeric_out = NotCalled
    /\ csv \in RunFiles
    /\ start_date = 0
    /\ end_date = 0
    /\ min_samples = 0
    /\ str_keeps_na = FALSE
    /\ loaded = NotLoaded
    /\ gdf = <<>>
    /\ events = NoEvents
    /\ IdleColour
    /\ schema \in Schemas
    /\ db = FreshDb
    /\ artifacts = {}
    /\ summary = NoSummary
    /\ before = [db |-> FreshDb, artifacts |-> {}]
    /\ runs = 1
    /\ IdleCache
    /\ IdleRaster

\* pipeline.run_pipeline lines 28-30
WriteGeojson ==
    /\ pc = "aggregated"
    /\ runs > 0
    /\ artifacts' =
          IF ArtifactWanted(gdf)
          THEN ToFile(artifacts,
                      OutputGeojson(loaded.effective_start, loaded.effective_end),
                      gdf)
          ELSE artifacts
    /\ pc' = "written"
    /\ UNCHANGED <<tabularVars, colourVars, cacheVars, rasterVars, schema, db,
                   summary, before, runs>>

\* pipeline.run_pipeline lines 32-47: the save, then the summary; an error of
\* the store leaves run_pipeline as it is raised
Save ==
    /\ pc = "written"
    /\ \E outcome \in Outcomes :
          LET saved == save_flood_events_to_postgis(gdf, db, schema, outcome)
          IN  /\ db' = saved.db
              /\ summary' =
                    IF saved.status = "ok"
                    THEN Summary(loaded.rows, gdf, saved.returned,
                                 OutputGeojson(loaded.effective_start,
                                               loaded.effective_end))
                    ELSE RunRaised(saved.raised_at)
              /\ pc' = IF saved.status = "ok" THEN "done" ELSE "failed"
    /\ UNCHANGED <<tabularVars, colourVars, cacheVars, rasterVars, schema,
                   artifacts, before, runs>>

\* scripts/run_pipeline.py started again, on the file then at csv_path
StartNextRun ==
    /\ pc \in {"done", "failed"}
    /\ runs > 0
    /\ runs < MaxRuns
    /\ runs' = runs + 1
    /\ csv' \in RunFiles
    /\ start_date' = 0
    /\ end_date' = 0
    /\ min_samples' = 0
    /\ loaded' = NotLoaded
    /\ gdf' = <<>>
    /\ summary' = NoSummary
    /\ before' = [db |-> db, artifacts |-> artifacts]
    /\ pc' = "start"
    /\ UNCHANGED <<series, minmax_out, minmax_numeric_out, str_keeps_na, events,
                   colourVars, cacheVars, rasterVars, schema, db, artifacts>>

NextRun == LoadMockup \/ Aggregate \/ WriteGeojson \/ Save \/ StartNextRun

SpecRun == InitRun /\ [][NextRun]_vars

----------------------------------------------------------------------------
(* The dashboard's cached loader, called again and again as time passes *)

InitCache ==
    /\ pc = "dashboard"
    /\ IdleTabular
    /\ IdleColour
    /\ IdleStore
    /\ env \in Environments
    /\ clock \in StartTimes
    /\ ticks = 0
    /\ cache = [p \in CachePaths |-> NoEntry]
    /\ served = NotServed
    /\ IdleRaster

\* time passes between two reruns of the script
Tick ==
    /\ pc = "dashboard"
    /\ ticks < MaxTicks
    /\ ticks' = ticks + 1
    /\ \E dt \in Steps : clock' = clock + dt
    /\ UNCHANGED <<pc, tabularVars, colourVars, storeVars, rasterVars, env, cache,
                   served>>

\* load_flood_events_from_csv(path_str) through st.cache_data: the entry of
\* the key when it is fresh, else the body is run and its result stored; an
\* error of the body is raised and not stored
CallCached ==
    /\ pc = "dashboard"
    /\ \E path_str \in CachePaths :
          LET key == CacheKey(path_str, env, clock)
              entry == cache[key]
              window == resolve_date_range(env, clock)
              computed == ComputeFromCsv(DashboardFiles[path_str],
                                         DashboardNames[path_str], env, clock,
                                         str_keeps_na)
          IN  IF Fresh(entry, clock)
              THEN /\ served' = [status |-> "ok", key |-> path_str, hit |-> TRUE,
                                 value |-> entry.value,
                                 age |-> clock - entry.stored_at,
                                 window |-> window,
                                 min_samples |-> env.min_samples,
                                 computed_window |-> entry.window,
                                 computed_min_samples |-> entry.min_samples]
                   /\ cache' = cache
              ELSE /\ served' = [status |-> computed.status, key |-> path_str,
                                 hit |-> FALSE, value |-> computed.value, age |-> 0,
                                 window |-> window,
                                 min_samples |-> env.min_samples,
                                 computed_window |-> window,
                                 computed_min_samples |-> env.min_samples]
                   /\ cache' =
                         IF computed.status = "ok"
                         THEN [cache EXCEPT ![key] =
                                  [stored_at |-> clock, value |-> computed.value,
                                   window |-> window,
                                   min_samples |-> env.min_samples]]
                         ELSE cache
    /\ UNCHANGED <<pc, tabularVars, colourVars, storeVars, rasterVars, env, clock,
                   ticks>>

NextCache == Tick \/ CallCached

SpecCache == InitCache /\ [][NextCache]_vars

----------------------------------------------------------------------------
(* The extraction of water polygons on its own *)

InitRaster ==
    /\ pc = "raster"
    /\ IdleTabular
    /\ IdleColour
    /\ IdleStore
    /\ IdleCache
    /\ raster \in Rasters
    /\ mndwi_threshold \in Thresholds
    /\ min_polygon_area_sqkm \in MinAreas
    /\ extracted = NotExtracted
    /\ previous = NotExtracted
    /\ calls = 0

\* one call on the raster; the clock of detected_at moves on with every call
ExtractFloodPolygons ==
    /\ pc = "raster"
    /\ calls < MaxCalls
    /\ calls' = calls + 1
    /\ previous' = extracted
    /\ extracted' = extract_flood_polygons(raster, mndwi_threshold,
                                           min_polygon_area_sqkm, calls + 1)
    /\ UNCHANGED <<pc, tabularVars, colourVars, storeVars, cacheVars, raster,
                   mndwi_threshold, min_polygon_area_sqkm>>

NextRaster == ExtractFloodPolygons

SpecRaster == InitRaster /\ [][NextRaster]_vars

----------------------------------------------------------------------------
(* Properties of the normalisers, under SpecNorm *)

\* the series as numbers: what is no number is undefined
Numeric(s) == [i \in DOMAIN s |-> IF s[i].k = "num" THEN s[i] ELSE NaN]
DefinedAt(s) == {i \in DOMAIN s : s[i].k = "num"}

\* max - min < 1e-9 over the defined entries
RangeBelowEps(s) ==
    \A i \in DefinedAt(s) : \A j \in DefinedAt(s) :
        RLess(RSub(s[i], s[j]), EPS)

AllZero(out) == \A i \in DOMAIN out.values : out.values[i] = Zero

\* C8: both normalisers return 0.0 everywhere for a series with no defined
\* entry and for a series whose range is below 1e-9.
C8_DegenerateSeriesToZero ==
    /\ (minmax_out.status = "ok" /\ RangeBelowEps(series)) => AllZero(minmax_out)
    /\ (minmax_numeric_out.status = "ok" /\ RangeBelowEps(series))
          => AllZero(minmax_numeric_out)

\* out is the min-max scaling of s: 0.0 at a minimum, 1.0 at a maximum, and
\* out[i] * (max - min) = s[i] - min at every defined entry
ScalesOnto01(s, out) ==
    \E lo \in DefinedAt(s) : \E hi \in DefinedAt(s) :
        /\ \A i \in DefinedAt(s) : RLeq(s[lo], s[i]) /\ RLeq(s[i], s[hi])
        /\ DOMAIN out = DOMAIN s
        /\ out[lo] = Zero
        /\ out[hi] = One
        /\ \A i \in DOMAIN s :
              IF i \in DefinedAt(s)
              THEN /\ IsNum(out[i])
                   /\ RLeq(Zero, out[i]) /\ RLeq(out[i], One)
                   /\ RMul(out[i], RSub(s[hi], s[lo])) = RSub(s[i], s[lo])
              ELSE IsNaN(out[i])

\* C9: for a series whose range is at least 1e-9 both normalisers return the
\* min-max scaling: minimum 0.0, maximum 1.0, (x - min)/(max - min) at every
\* defined entry, all within [0, 1].
C9_NonDegenerateSeriesScaled ==
    /\ (minmax_out.status = "ok" /\ ~RangeBelowEps(series))
          => ScalesOnto01(series, minmax_out.values)
    /\ (minmax_numeric_out.status = "ok" /\ ~RangeBelowEps(series))
          => ScalesOnto01(Numeric(series), minmax_numeric_out.values)

\* a series whose range is exactly 1e-9, scaled by both
C9_Witness ==
    /\ series = <<Zero, Rat(1, 2000000000), EPS>>
    /\ minmax_out = Returned(<<Zero, Rat(1, 2), One>>)
    /\ minmax_numeric_out = Returned(<<Zero, Rat(1, 2), One>>)

----------------------------------------------------------------------------
(* Properties of the loaders and the aggregator, under Spec *)

LoadReturned == loaded.status = "ok"
AggregateReturned == pc = "aggregated"
EventsReturned == events.status = "ok"

\* the rows the aggregator was given, by province
InputRowsOf(p) == {i \in DOMAIN loaded.rows : loaded.rows[i].province = p}
InputProvinces == {loaded.rows[i].province : i \in DOMAIN loaded.rows}
OutputRowsOf(p) == {i \in DOMAIN gdf : gdf[i].province = p}

\* C1: every region of the aggregator's output has sample_count >=
\* min_samples_per_province, its sample_count is the number of its input rows,
\* a region with fewer input rows than the threshold is absent, and a region
\* of the centroid table with enough rows appears exactly once.
C1_ThresholdRespected ==
    AggregateReturned =>
        /\ \A i \in DOMAIN gdf :
              /\ gdf[i].sample_count >= min_samples
              /\ gdf[i].sample_count = Cardinality(InputRowsOf(gdf[i].province))
        /\ \A p \in InputProvinces :
              /\ Cardinality(InputRowsOf(p)) < min_samples => OutputRowsOf(p) = {}
              /\ Cardinality(OutputRowsOf(p)) <= 1
              /\ (Cardinality(InputRowsOf(p)) >= min_samples /\ HasCentroid(p))
                    => Cardinality(OutputRowsOf(p)) = 1

\* one region passes a threshold of 2 with exactly 2 rows, another falls short
C1_Witness ==
    /\ AggregateReturned
    /\ min_samples = 2
    /\ \E i \in DOMAIN gdf : gdf[i].province = "Bangkok" /\ gdf[i].sample_count = 2
    /\ Cardinality(InputRowsOf("Nan")) = 1
    /\ OutputRowsOf("Nan") = {}

\* C2: every region row of the aggregator's output has a defined risk_score
\* with 0.0 <= risk_score <= 1.0.
C2_RiskScoreDefinedInUnitInterval ==
    AggregateReturned =>
        \A i \in DOMAIN gdf :
            /\ IsNum(gdf[i].risk_score)
            /\ RLeq(Zero, gdf[i].risk_score)
            /\ RLeq(gdf[i].risk_score, One)

\* the valid rows of the file: those that survive the coercions
ValidRows == CleanRows(csv.rows, str_keeps_na)
ValidInRequest ==
    {i \in DOMAIN ValidRows :
        start_date <= ValidRows[i].date /\ ValidRows[i].date <= end_date}
IsLatest(d) ==
    /\ \E i \in DOMAIN ValidRows : ValidRows[i].date = d
    /\ \A i \in DOMAIN ValidRows : ValidRows[i].date <= d
InEffectiveWindow(r) ==
    loaded.effective_start <= r.date /\ r.date <= loaded.effective_end

\* C3: the effective window is the requested one exactly when the requested
\* closed interval holds a valid row; otherwise it is [D - 6, D] with D the
\* latest date of the valid rows; the returned rows are the valid rows dated
\* within the closed effective window.
C3_EffectiveWindow ==
    LoadReturned =>
        /\ (loaded.effective_start = start_date /\ loaded.effective_end = end_date)
              <=> ValidInRequest # {}
        /\ ValidInRequest = {} =>
              /\ IsLatest(loaded.effective_end)
              /\ loaded.effective_start = loaded.effective_end - 6
        /\ loaded.rows = SelectSeq(ValidRows, InEffectiveWindow)

\* nothing valid in the requested window; the latest date is day 10, so the
\* window is [4, 10], which keeps the row of day 4 and leaves out that of day 3
C3_Witness ==
    /\ LoadReturned
    /\ ValidInRequest = {}
    /\ loaded.effective_start = 4
    /\ loaded.effective_end = 10
    /\ \E i \in DOMAIN ValidRows : ValidRows[i].date = 3
    /\ \E i \in DOMAIN loaded.rows : loaded.rows[i].date = 4
    /\ Len(loaded.rows) = 2

\* C4: when the file holds a row that survives the coercions, the loader
\* returns at least one row, whatever the requested window.
C4_NeverEmptyWhileDataExists ==
    (loaded.status # "none" /\ csv.columns = REQUIRED_COLUMNS /\ ValidRows # <<>>)
        => (LoadReturned /\ loaded.rows # <<>>)

\* a window after all the data, and one before it, still yield rows
C4_Witness ==
    /\ LoadReturned
    /\ start_date = 11
    /\ \A i \in DOMAIN ValidRows : ValidRows[i].date < start_date
    /\ loaded.rows # <<>>

\* C5: with a required column absent, both loaders fail with an error naming
\* exactly the absent columns, and return no row.
C5_ErrorNamesMissingColumns ==
    LET missing == REQUIRED_COLUMNS \ csv.columns
    IN  /\ (loaded.status # "none" /\ missing # {}) =>
              /\ loaded.status = "error"
              /\ loaded.names = missing
              /\ loaded.rows = <<>>
        /\ (events.status # "none" /\ missing # {}) =>
              /\ events.status = "error"
              /\ events.names = missing
              /\ events.rows = <<>>

\* the cells the loader requires of a row of the file
RawRowComplete(r) ==
    /\ r.date.k = "num"
    /\ r.province.k = "str"
    /\ r.rainfall_mm.k = "num"
    /\ r.water_level_m.k = "num"
    /\ r.is_flood.k = "num"

\* C6: every returned row comes from a row of the file whose timestamp,
\* region, rainfall, water level and flood flag are all present and coercible
\* (any other row is dropped), and the remaining rows are still loaded.
C6_IncompleteRowsDropped ==
    LoadReturned =>
        \A i \in DOMAIN loaded.rows : RawRowComplete(csv.rows[loaded.rows[i].index])

\* astype(int) of a number: the integer part, towards zero
IntegerPart(c, t) ==
    IF c.n >= 0 THEN t * c.d <= c.n /\ c.n < (t + 1) * c.d
    ELSE (t - 1) * c.d < c.n /\ c.n <= t * c.d
Clamped01(t) == IF t <= 0 THEN 0 ELSE 1
FlagFollowsInput(raw, flag) ==
    /\ flag \in {0, 1}
    /\ \E t \in -3..3 : IntegerPart(raw.is_flood, t) /\ flag = Clamped01(t)

\* C7: every row returned by either loader has a flood flag in {0, 1}, the
\* integer part of the input clamped to [0, 1]; so flood_events <=
\* sample_count in every aggregated region.
C7_FlagClamped ==
    /\ LoadReturned =>
          \A i \in DOMAIN loaded.rows :
              FlagFollowsInput(csv.rows[loaded.rows[i].index], loaded.rows[i].is_flood)
    /\ EventsReturned =>
          \A i \in DOMAIN events.rows :
              FlagFollowsInput(csv.rows[events.rows[i].index], events.rows[i].is_flood)
    /\ AggregateReturned =>
          \A i \in DOMAIN gdf :
              0 <= gdf[i].flood_events /\ gdf[i].flood_events <= gdf[i].sample_count

\* inputs 5/2 and -1 came back as 1 and 0, and were aggregated
C7_Witness ==
    /\ AggregateReturned
    /\ \E i \in DOMAIN loaded.rows :
          /\ csv.rows[loaded.rows[i].index].is_flood = Rat(5, 2)
          /\ loaded.rows[i].is_flood = 1
    /\ \E i \in DOMAIN loaded.rows :
          /\ csv.rows[loaded.rows[i].index].is_flood = Rat(0 - 1, 1)
          /\ loaded.rows[i].is_flood = 0
    /\ \E i \in DOMAIN gdf : gdf[i].flood_events = 1 /\ gdf[i].sample_count = 2

FlagSum(p) == Cardinality({i \in InputRowsOf(p) : loaded.rows[i].is_flood = 1})

\* C10: in every output region flood_rate = flood_events / sample_count, with
\* sample_count the number of the region's input rows and flood_events the
\* sum of their flags; so 0 <= flood_rate <= 1.
C10_FloodRateExact ==
    AggregateReturned =>
        \A i \in DOMAIN gdf :
            /\ gdf[i].sample_count = Cardinality(InputRowsOf(gdf[i].province))
            /\ gdf[i].flood_events = FlagSum(gdf[i].province)
            /\ IsNum(gdf[i].flood_rate)
            /\ RMul(gdf[i].flood_rate, Rat(gdf[i].sample_count, 1))
                  = Rat(gdf[i].flood_events, 1)
            /\ RLeq(Zero, gdf[i].flood_rate)
            /\ RLeq(gdf[i].flood_rate, One)

\* a region with 3 rows, 2 of them flood events: flood_rate 2/3
C10_Witness ==
    /\ AggregateReturned
    /\ \E i \in DOMAIN gdf :
          /\ gdf[i].sample_count = 3
          /\ gdf[i].flood_events = 2
          /\ gdf[i].flood_rate = Rat(2, 3)

----------------------------------------------------------------------------
(* The risk formulas and the centroid table, under Spec *)

\* min-max normalisation of v across the values S: 0.0 when S has no defined
\* value or its range is below 1e-9, else (v - min) / (max - min)
NormAcross(v, S) ==
    LET nums == {x \in S : IsNum(x)}
    IN  IF nums = {} THEN Zero
        ELSE LET lo == CHOOSE x \in nums : \A y \in nums : RLeq(x, y)
                 hi == CHOOSE x \in nums : \A y \in nums : RLeq(y, x)
             IN  IF RLess(RSub(hi, lo), EPS) THEN Zero
                 ELSE IF IsNum(v) THEN RDiv(RSub(v, lo), RSub(hi, lo))
                 ELSE NaN

\* the regions of the run that pass the sample threshold, with or without a
\* centroid
PassingRegions ==
    {p \in InputProvinces : Cardinality(InputRowsOf(p)) >= min_samples}

WaterMeans == {Group(loaded.rows, p).water_level_m_mean : p \in PassingRegions}
RainfallMeans == {Group(loaded.rows, p).rainfall_mm_mean : p \in PassingRegions}
HumidityMeans == {Group(loaded.rows, p).humidity_percent_mean : p \in PassingRegions}

RegionRiskFormula(row) ==
    Clip01(FAdd(FAdd(FAdd(FMul(Rat(40, 100),
                               NormAcross(row.water_level_m_mean, WaterMeans)),
                          FMul(Rat(30, 100),
                               NormAcross(row.rainfall_mm_mean, RainfallMeans))),
                     FMul(Rat(20, 100), row.flood_rate)),
                FMul(Rat(10, 100),
                     NormAcross(row.humidity_percent_mean, HumidityMeans))))

\* C11: the risk_score of every region row is clip(0.40 * norm(water mean) +
\* 0.30 * norm(rainfall mean) + 0.20 * flood_rate + 0.10 * norm(humidity
\* mean), 0, 1), norm being the min-max normalisation across the regions of
\* the run that passed the sample threshold.
C11_RegionRiskFormula ==
    AggregateReturned =>
        \A i \in DOMAIN gdf : gdf[i].risk_score = RegionRiskFormula(gdf[i])

\* C12: no region without a centroid is in the aggregator's output or in the
\* event-level dataset, the geometry of every output row is the point of the
\* centroid table, and the regions with a centroid are still delivered.
C12_UnknownRegionsOmitted ==
    /\ AggregateReturned =>
          /\ \A i \in DOMAIN gdf :
                /\ HasCentroid(gdf[i].province)
                /\ gdf[i].geometry = PROVINCE_CENTROIDS[gdf[i].province]
          /\ \A p \in PassingRegions : HasCentroid(p) => OutputRowsOf(p) # {}
    /\ EventsReturned =>
          \A i \in DOMAIN events.rows :
              /\ HasCentroid(events.rows[i].province)
              /\ events.rows[i].lon_center =
                    PROVINCE_CENTROIDS[events.rows[i].province][1]
              /\ events.rows[i].lat_center =
                    PROVINCE_CENTROIDS[events.rows[i].province][2]

\* a region without a centroid passes the threshold and is left out, another
\* region is delivered
C12_Witness ==
    /\ AggregateReturned
    /\ "Atlantis" \in PassingRegions
    /\ OutputRowsOf("Atlantis") = {}
    /\ \E i \in DOMAIN gdf :
          gdf[i].province = "Nan" /\ gdf[i].geometry = <<1007715, 187756>>

EventColumn(col) == {events.rows[i][col] : i \in DOMAIN events.rows}

EventRiskFormula(row) ==
    Clip01(FAdd(FAdd(FAdd(FAdd(
        FMul(Rat(42, 100), NormAcross(row.water_level_m, EventColumn("water_level_m"))),
        FMul(Rat(30, 100), NormAcross(row.rainfall_mm, EventColumn("rainfall_mm")))),
        FMul(Rat(15, 100), Rat(row.is_flood, 1))),
        FMul(Rat(8, 100),
             NormAcross(row.humidity_percent, EventColumn("humidity_percent")))),
        FMul(Rat(5, 100),
             NormAcross(row.temperature_c, EventColumn("temperature_c")))))

\* C19: every record of the event-level dataset, the records without a
\* temperature among them, has a defined event_risk_score in [0, 1], equal to
\* clip(0.42 * norm(water) + 0.30 * norm(rain) + 0.15 * flag + 0.08 *
\* norm(humidity) + 0.05 * norm(temperature), 0, 1), norm taken across the
\* whole batch.
C19_EventRiskDefined ==
    EventsReturned =>
        \A i \in DOMAIN events.rows :
            /\ IsNum(events.rows[i].event_risk_score)
            /\ RLeq(Zero, events.rows[i].event_risk_score)
            /\ RLeq(events.rows[i].event_risk_score, One)
            /\ events.rows[i].event_risk_score = EventRiskFormula(events.rows[i])

----------------------------------------------------------------------------
(* Properties of the colour mapping, under SpecColour *)

ColourReturned == rgb # <<>>

\* the risk clamped to [0, 1]
ClampedRisk ==
    IF RLess(risk, Zero) THEN Zero ELSE IF RLess(One, risk) THEN One ELSE risk

\* the anchors next to v on either side
LeftAnchors(v) == {i \in 1..4 : RLeq(ANCHORS[i].pos, v) /\ RLeq(v, ANCHORS[i + 1].pos)}

Between(a, x, b) == (a <= x /\ x <= b) \/ (b <= x /\ x <= a)

\* twice the distance of channel c from the line through the anchors i and
\* i + 1 at v is at most 1
OnTheLine(v, i, c) ==
    LET left == ANCHORS[i]
        right == ANCHORS[i + 1]
        exact == RAdd(R(left.color[c]),
                      RDiv(RMul(R(right.color[c] - left.color[c]),
                                RSub(v, left.pos)),
                           RSub(right.pos, left.pos)))
    IN  RLeq(RMul(R(2), RAbs(RSub(R(rgb[c]), exact))), One)

\* C13: for a finite risk _risk_to_rgb returns a triple; a risk below 0 gets
\* the colour of 0.0 and a risk above 1 the colour of 1.0; at an anchor
\* position the colour is the anchor's; elsewhere every channel lies between
\* the channels of the two adjacent anchors, on the line between them up to
\* rounding.
C13_ColourPiecewiseLinear ==
    (ColourReturned /\ IsNum(risk)) =>
        /\ DOMAIN rgb = 1..3
        /\ rgb = risk_to_rgb(ClampedRisk)
        /\ RLess(risk, Zero) => rgb = <<245, 240, 24>>
        /\ RLess(One, risk) => rgb = <<120, 76, 190>>
        /\ \A i \in 1..5 : ClampedRisk = ANCHORS[i].pos => rgb = ANCHORS[i].color
        /\ ClampedRisk = Rat(1, 2) => rgb = <<42, 201, 92>>
        /\ \A i \in LeftAnchors(ClampedRisk) : \A c \in 1..3 :
              /\ Between(ANCHORS[i].color[c], rgb[c], ANCHORS[i + 1].color[c])
              /\ OnTheLine(ClampedRisk, i, c)

\* a risk strictly inside a segment whose first channel falls midway between
\* two integers: 245 - 123/2 = 183.5
C13_Witness ==
    /\ ColourReturned
    /\ risk = Rat(1, 8)
    /\ rgb = <<184, 236, 26>>

----------------------------------------------------------------------------
(* Properties of the batch run and the store, under SpecRun *)

\* the run has ended: with a summary, or with an error
RunEnded == pc \in {"done", "failed"}
\* the error came out of save_flood_events_to_postgis
StoreRaised == pc = "failed" /\ summary.status = "error"
\* save_flood_events_to_postgis was called and has returned or raised
SaveCalled == pc = "done" \/ StoreRaised

IsPrefix(s, t) == Len(s) <= Len(t) /\ SubSeq(t, 1, Len(s)) = s

\* the file this run writes, when it writes one
RunArtifact ==
    [name |-> <<loaded.effective_start, loaded.effective_end>>, rows |-> gdf]

C15_NoPartialState ==
    StoreRaised =>
        /\ db.rows = before.db.rows
        /\ artifacts = before.artifacts

\* C15: a run that fails in the store ends with the error and without a
\* summary, the store is called once, and what the run wrote before the
\* failing step stays: its GeoJSON file is in the output directory, the rows
\* appended before a failing index creation are in the table, and the rows
\* of earlier runs are untouched.
C15_FailureKeepsEarlierSteps ==
    StoreRaised =>
        /\ gdf # <<>>
        /\ summary.rows_inserted = 0 /\ summary.province_points = 0
        /\ RunArtifact \in artifacts
        /\ IsPrefix(before.db.rows, db.rows)
        /\ summary.raised_at = "index" => db.rows = before.db.rows \o gdf
        /\ summary.raised_at = "ensure" => db = before.db
        /\ Len(db.rows) <= Len(before.db.rows) + Len(gdf)

\* the index creation of a second run fails after its append
C15_Witness ==
    /\ StoreRaised
    /\ summary.raised_at = "index"
    /\ before.db.rows # <<>>
    /\ db.rows = before.db.rows \o gdf
    /\ RunArtifact \in artifacts

C17_AppendOnly ==
    [][/\ IsPrefix(db.rows, db'.rows)
       /\ db'.rows # db.rows => db'.rows = db.rows \o gdf
       /\ (pc = "written" /\ pc' = "done") => db'.rows = db.rows \o gdf
       /\ (pc = "written" /\ pc' = "failed" /\ summary'.raised_at = "append")
             => (db'.extension /\ db'.rows = db.rows)
       /\ db.extension => db'.extension
       /\ db.schemas \subseteq db'.schemas
       /\ db.table_exists => db'.table_exists
       /\ db.index => db'.index]_vars

\* two runs appended the same record set: the table holds it twice
C17_Witness ==
    /\ pc = "done"
    /\ runs = 2
    /\ gdf # <<>>
    /\ before.db.rows = gdf
    /\ db.rows = gdf \o gdf
    /\ before.db.index /\ db.index

----------------------------------------------------------------------------
(* Properties of the dashboard's cache, under SpecCache *)

\* C18: a result taken from the cache is younger than 900 seconds and was
\* computed for the path, the date window and the sample threshold of the
\* call it is handed to; a call that finds no entry younger than that runs
\* the whole computation.
C18_CacheKeyedByParameters ==
    (served.status = "ok" /\ served.hit) =>
        /\ served.age < 900
        /\ served.computed_window = served.window
        /\ served.computed_min_samples = served.min_samples

----------------------------------------------------------------------------
(* Properties of the extraction of water polygons, under SpecRaster *)

ExtractCalled == extracted.status # "none"

\* (green - swir) / (green + swir + 1e-6) > threshold and data_mask > 0,
\* by cross-multiplication for a positive divisor
Satisfies(px, threshold) ==
    LET divisor == RAdd(RAdd(px.green, px.swir), Rat(1, 1000000))
    IN  /\ RLess(Zero, px.data_mask)
        /\ RLess(Zero, divisor)
        /\ RLess(RMul(threshold, divisor), RSub(px.green, px.swir))

SatisfyingPixels == {p \in DOMAIN raster.pixels : Satisfies(raster.pixels[p], mndwi_threshold)}

\* every set of satisfying pixels joined by shared edges covers less than
\* the least area
EveryRegionTooSmall ==
    \A S \in SUBSET SatisfyingPixels :
        (S # {} /\ Region({CHOOSE p \in S : TRUE}, S) = S)
            => RLess(RMul(R(Cardinality(S)), raster.pixel_sqkm), min_polygon_area_sqkm)

\* C20: extract_flood_polygons returns an empty polygon set and raises no
\* error when no pixel satisfies (index > threshold) and (data_mask > 0), and
\* when the area filter removes every candidate polygon.
C20_EmptyResultNotAnError ==
    ExtractCalled =>
        /\ SatisfyingPixels = {} =>
              (extracted.status = "ok" /\ extracted.polygons = {})
        /\ (extracted.filtered /\ SatisfyingPixels # {} /\ EveryRegionTooSmall) =>
              (extracted.status = "ok" /\ extracted.polygons = {})
        /\ (extracted.status = "ok" /\ extracted.polygons = {}) => ~extracted.geojson

\* water pixels in one region of two pixels, all below the least area
C20_Witness ==
    /\ ExtractCalled
    /\ Cardinality(SatisfyingPixels) = 2
    /\ min_polygon_area_sqkm = R(5)
    /\ extracted.filtered
    /\ extracted.status = "ok"
    /\ extracted.polygons = {}

\* a polygon as the GeoJSON reader compares it: shape, flag, area and mean
\* index, without the time of detection
Outline(polygon) ==
    [geometry |-> polygon.geometry, water |-> polygon.water,
     area_sqkm |-> polygon.area_sqkm, mean_mndwi |-> polygon.mean_mndwi]

Outlines(result) == {Outline(g) : g \in result.polygons}

\* no part of S is cut off from the rest of S: some shared edge leaves it
Connected(S) ==
    \A T \in SUBSET S :
        (T # {} /\ T # S) => \E p \in T : \E q \in S \ T : Adjacent(p, q)

\* the candidate water regions: the largest connected sets of satisfying pixels
Candidates ==
    LET satisfying == SatisfyingPixels
    IN  {S \in SUBSET satisfying :
            /\ S # {}
            /\ \A q \in satisfying \ S : \A p \in S : ~Adjacent(p, q)
            /\ Connected(S)}

RegionArea(S) == RMul(R(Cardinality(S)), raster.pixel_sqkm)

\* C21: every polygon returned by extract_flood_polygons has water flag 1,
\* covers only pixels where (index > threshold) and (data_mask > 0), and has
\* area_sqkm >= min_polygon_area_sqkm; the polygons returned are exactly the
\* candidate water regions whose area is at least the minimum; and a second
\* extraction from the same raster returns the same polygons (same shapes,
\* flags, areas and mean indexes) as the first.
C21_PolygonsAreTheLargeWaterRegions ==
    /\ (ExtractCalled /\ extracted.status = "ok") =>
          /\ \A g \in extracted.polygons :
                /\ g.water = 1
                /\ g.geometry # {}
                /\ \A p \in g.geometry : Satisfies(raster.pixels[p], mndwi_threshold)
                /\ RLeq(min_polygon_area_sqkm, g.area_sqkm)
          /\ {g.geometry : g \in extracted.polygons} =
                {S \in Candidates : RLeq(min_polygon_area_sqkm, RegionArea(S))}
          /\ Cardinality(extracted.polygons) =
                Cardinality({g.geometry : g \in extracted.polygons})
    /\ calls >= 2 =>
          /\ extracted.status = previous.status
          /\ Outlines(extracted) = Outlines(previous)
          /\ Cardinality(extracted.polygons) = Cardinality(previous.polygons)
          /\ extracted.mask_tif = previous.mask_tif

\* the second extraction from a raster with a CRS: one polygon of two pixels
\* of exactly the least area, a pixel above the threshold under the data mask
\* left out of it, and the first extraction differing in detected_at only
C21_Witness ==
    /\ calls = 2
    /\ extracted.status = "ok"
    /\ previous.status = "ok"
    /\ min_polygon_area_sqkm = Rat(1, 2)
    /\ \E g \in extracted.polygons :
          /\ extracted.polygons = {g}
          /\ Cardinality(g.geometry) = 2
          /\ g.area_sqkm = min_polygon_area_sqkm
          /\ g.detected_at = 2
    /\ \E p \in DOMAIN raster.pixels :
          /\ raster.pixels[p] = Pixel(R(3), R(1), Zero)
          /\ p \notin UNION {g.geometry : g \in extracted.polygons}
    /\ extracted.polygons # previous.polygons
    /\ Outlines(extracted) = Outlines(previous)

====
